---- MODULE Spec2Model ----
(***************************************************************************)
(* Model of src/src/exporter.py: the Bambu Lab Prometheus exporter.        *)
(*                                                                         *)
(* The state is the exporter object (the printers and metrics tables), the *)
(* process-wide metrics registry and the label children of every gauge.    *)
(* A gauge child that was never written is absent: a simple gauge is the   *)
(* set {} or {v}; a gauge with a dynamic label is a set of <<label, v>>.   *)
(* Temperatures are in tenths of a degree (2105 is 210.5 C), the nozzle    *)
(* diameter in tenths of a millimetre.                                     *)
(***************************************************************************)
EXTENDS Integers, Sequences, FiniteSets, TLC

VARIABLES
    printers,   \* self.printers: the keys in insertion order
    metrics,    \* self.metrics: name -> the gauges of one BambuMetrics
    registry,   \* TRUE once the metric names are in the default registry
    phase,      \* lifecycle of run(): "STARTING", "RUNNING", "STOPPING",
                \* "STOPPED", and "EXITED" after the empty-fleet return
    cycle,      \* number of update_metrics calls made so far
    inputs,     \* what the device clients answered in the last cycle
    prev,       \* self.metrics as it was when the last cycle began
    raised,     \* TRUE when the last update_metrics call raised
    lastfile,   \* name -> the filename the last finished cycle read, or ""
    upd,        \* position inside the current-file block, "idle" outside
    scraped,    \* what the last scrape of the current-file gauge returned
    running,    \* self.running
    loc,        \* the statement of run() the main thread is at, when run()
                \* is taken one statement at a time; "new" otherwise
    failed,     \* names whose connection attempt was logged as failed
    sleeps,     \* time.sleep calls of the loop since the last cycle ended
    slept,      \* seconds the last time.sleep of the loop was asked for
    elapsed,    \* seconds the last update_metrics call took
    signal,     \* where run() was when the first signal came, "" before
    after,      \* cycles begun and sleeps finished since that signal
    disconnects,\* name -> outcomes of the disconnect() calls on its handle
    camera,     \* what the last /camera or /health request did
    trail       \* per cycle, what the first device's answers amounted to

\* The variables of run() taken one statement at a time.
life == <<loc, sleeps, slept, elapsed, signal, after, disconnects, camera,
          trail>>

vars == <<printers, metrics, registry, phase, cycle, inputs, prev, raised,
          lastfile, upd, scraped, running, failed, life>>

\* Number of poll cycles explored.
MaxCycles == 2

-----------------------------------------------------------------------------
(* The device client: what one getter call can answer.                     *)

Raise == [k |-> "raise"]
None == [k |-> "none"]
Val(x) == [k |-> "val", v |-> x]

IsVal(r) == r.k = "val"

\* The getters update_metrics calls, in call order.
Fields ==
    <<"nozzle_temp", "bed_temp", "chamber_temp", "percentage", "time",
      "current_layer", "total_layer", "print_speed", "wifi_signal",
      "light_state", "state", "gcode_state", "error_code", "file_name",
      "nozzle_type", "nozzle_diameter">>

FieldSet == {Fields[i] : i \in 1..Len(Fields)}

\* The three reads that precede the online decision.
TempFields == {"nozzle_temp", "bed_temp", "chamber_temp"}

\* Raw wifi strings, as character sequences.
WifiGood == <<"-", "6", "3", "d", "B", "m">>
WifiBad == <<"N", "/", "A">>

StateNames ==
    {"IDLE", "PRINTING", "RUNNING", "PAUSED", "FINISH", "FINISHED", "FAILED",
     "BOGUS", "paused"}

\* The answers each getter is given in the model.
Dom(f) ==
    CASE f = "nozzle_temp" -> {Raise, None, Val(2105), Val(2200)}
      [] f = "bed_temp" -> {Raise, None, Val(600)}
      [] f = "chamber_temp" -> {Raise, None, Val(350)}
      [] f = "percentage" -> {Raise, None, Val(50)}
      [] f = "time" -> {Raise, None, Val(7)}
      [] f = "current_layer" -> {Raise, None, Val(12)}
      [] f = "total_layer" -> {Raise, None, Val(80)}
      [] f = "print_speed" -> {Raise, None, Val(100)}
      [] f = "wifi_signal" -> {Raise, None, Val(WifiGood), Val(WifiBad)}
      [] f = "light_state" -> {Raise, None, Val("on"), Val("ON"), Val("off")}
      [] f = "state" -> {Raise, None} \cup {Val(n) : n \in StateNames}
      [] f = "gcode_state" ->
            {Raise, None, Val("")} \cup {Val(n) : n \in StateNames}
      [] f = "error_code" -> {Raise, None, Val(0), Val(5)}
      [] f = "file_name" ->
            {Raise, None, Val(""), Val("a.gcode"), Val("b.gcode")}
      [] f = "nozzle_type" -> {Raise, None, Val("hardened_steel")}
      [] f = "nozzle_diameter" -> {Raise, None, Val(4)}

\* A printer that is printing and answers every getter.
Nominal ==
    [f \in FieldSet |->
        CASE f = "nozzle_temp" -> Val(2105)
          [] f = "bed_temp" -> Val(600)
          [] f = "chamber_temp" -> Val(350)
          [] f = "percentage" -> Val(50)
          [] f = "time" -> Val(7)
          [] f = "current_layer" -> Val(12)
          [] f = "total_layer" -> Val(80)
          [] f = "print_speed" -> Val(100)
          [] f = "wifi_signal" -> Val(WifiGood)
          [] f = "light_state" -> Val("on")
          [] f = "state" -> Val("PRINTING")
          [] f = "gcode_state" -> Val("RUNNING")
          [] f = "error_code" -> Val(5)
          [] f = "file_name" -> Val("a.gcode")
          [] f = "nozzle_type" -> Val("hardened_steel")
          [] f = "nozzle_diameter" -> Val(4)]

AllNone == [f \in FieldSet |-> None]
AllRaise == [f \in FieldSet |-> Raise]

\* base, and base with one getter answering differently.
Deviations(base) ==
    {base} \cup
    UNION {{[base EXCEPT ![f] = r] : r \in Dom(f)} : f \in FieldSet}

\* A printer whose temperature reads all answer r, the rest nominal.
TempsAbsent(r) == [f \in FieldSet |-> IF f \in TempFields THEN r ELSE Nominal[f]]

\* The answers drawn in a cycle: a nominal printer and a silent one, each
\* with at most one getter answering differently, and printers whose three
\* temperature reads, or all reads, fail.
Samples ==
    Deviations(Nominal) \cup Deviations(AllNone)
        \cup {AllRaise, TempsAbsent(None), TempsAbsent(Raise)}

\* Every pair of coarse and granular state on an otherwise nominal printer.
StatePairs ==
    {[Nominal EXCEPT !["state"] = a, !["gcode_state"] = b] :
        a \in Dom("state"), b \in Dom("gcode_state")}

\* One device in one cycle: the answer of mqtt_client_connected() and, when
\* it answered True, the answers of the getters.
InputsOver(S) ==
    {[conn |-> c, sample |-> AllNone] : c \in {"down", "raise"}} \cup
    {[conn |-> "up", sample |-> s] : s \in S}

Inputs == InputsOver(Samples)

-----------------------------------------------------------------------------
(* Conversions update_metrics applies to raw values.                       *)

\* str.upper() and str.lower() on the strings the model uses.
Upper(s) ==
    CASE s = "paused" -> "PAUSED"
      [] OTHER -> s

Lower(s) ==
    CASE s = "ON" -> "on"
      [] s = "OFF" -> "off"
      [] OTHER -> s

\* str.replace('dBm', '')
RECURSIVE RemoveDBm(_)
RemoveDBm(s) ==
    IF s = <<>> THEN <<>>
    ELSE IF Len(s) >= 3 /\ SubSeq(s, 1, 3) = <<"d", "B", "m">>
         THEN RemoveDBm(SubSeq(s, 4, Len(s)))
         ELSE <<Head(s)>> \o RemoveDBm(Tail(s))

\* str.strip()
RECURSIVE Strip(_)
Strip(s) ==
    IF s = <<>> THEN s
    ELSE IF Head(s) = " " THEN Strip(Tail(s))
    ELSE IF s[Len(s)] = " " THEN Strip(SubSeq(s, 1, Len(s) - 1))
    ELSE s

Digits == {"0", "1", "2", "3", "4", "5", "6", "7", "8", "9"}

DigitVal(c) ==
    CASE c = "0" -> 0 [] c = "1" -> 1 [] c = "2" -> 2 [] c = "3" -> 3
      [] c = "4" -> 4 [] c = "5" -> 5 [] c = "6" -> 6 [] c = "7" -> 7
      [] c = "8" -> 8 [] c = "9" -> 9

RECURSIVE Decimal(_)
Decimal(s) ==
    IF s = <<>> THEN 0
    ELSE 10 * Decimal(SubSeq(s, 1, Len(s) - 1)) + DigitVal(s[Len(s)])

AllDigits(s) == s # <<>> /\ \A i \in 1..Len(s) : s[i] \in Digits

\* float() on a signed whole number; anything else raises ValueError.
ParseFloat(s) ==
    IF AllDigits(s) THEN Val(Decimal(s))
    ELSE IF s # <<>> /\ Head(s) = "-" /\ AllDigits(Tail(s))
         THEN Val(0 - Decimal(Tail(s)))
    ELSE IF s # <<>> /\ Head(s) = "+" /\ AllDigits(Tail(s))
         THEN Val(Decimal(Tail(s)))
    ELSE Raise

\* str() of the nozzle diameter.
StrDiameter(d) == IF d = 4 THEN "0.4" ELSE "0.2"

\* Truth value of a getter's answer in an `if x:` test, for a string and
\* for a number.
TruthyStr(r) == IsVal(r) /\ r.v # ""
TruthyNum(r) == IsVal(r) /\ r.v # 0

state_mapping ==
    [n \in {"IDLE", "PRINTING", "RUNNING", "PAUSED", "FINISH", "FAILED"} |->
        CASE n = "IDLE" -> 0
          [] n = "PRINTING" -> 1
          [] n = "RUNNING" -> 1
          [] n = "PAUSED" -> 2
          [] n = "FINISH" -> 3
          [] n = "FAILED" -> 4]

-----------------------------------------------------------------------------
(* The metric sink.                                                        *)

\* BambuMetrics.__init__: every gauge registered, no label child yet.
\* (total_prints and printer_info are created too and never written.)
NewMetrics ==
    [nozzle_temp |-> {}, nozzle_target_temp |-> {}, bed_temp |-> {},
     bed_target_temp |-> {}, chamber_temp |-> {}, print_progress |-> {},
     print_remaining_time |-> {}, current_layer |-> {}, total_layers |-> {},
     print_speed |-> {}, printer_online |-> {}, printer_state |-> {},
     wifi_signal |-> {}, chamber_light |-> {}, error_code |-> {},
     current_file |-> {}, nozzle_info |-> {}]

\* gauge.labels(...): the child is created with value 0 when it is new.
Labels(children, l) ==
    IF \E c \in children : c[1] = l THEN children
    ELSE children \cup {<<l, 0>>}

\* child.set(v)
SetChild(children, l, v) == {c \in children : c[1] # l} \cup {<<l, v>>}


-----------------------------------------------------------------------------
(* update_metrics, one device: m is its BambuMetrics, s the getters'       *)
(* answers.  Each operator is one block of the loop body.                  *)

\* Mutant: the reset also drops the filename and nozzle combinations.
OfflineDisconnected_DropsLabels(m) ==
    [m EXCEPT !.printer_online = {0},
              !.nozzle_temp = {0}, !.nozzle_target_temp = {0},
              !.bed_temp = {0}, !.bed_target_temp = {0},
              !.chamber_temp = {0}, !.print_progress = {0},
              !.print_remaining_time = {0}, !.current_layer = {0},
              !.total_layers = {0}, !.print_speed = {0},
              !.error_code = {0}, !.printer_state = {0},
              !.current_file = {}, !.nozzle_info = {}]

\* The branch taken when mqtt_client_connected() is False.
OfflineDisconnected(m) ==
    [m EXCEPT !.printer_online = {0},
              !.nozzle_temp = {0}, !.nozzle_target_temp = {0},
              !.bed_temp = {0}, !.bed_target_temp = {0},
              !.chamber_temp = {0}, !.print_progress = {0},
              !.print_remaining_time = {0}, !.current_layer = {0},
              !.total_layers = {0}, !.print_speed = {0},
              !.error_code = {0}, !.printer_state = {0}]

\* Mutant: the second copy of the reset misses two gauges.
OfflineSilent_Partial(m) ==
    [m EXCEPT !.printer_online = {0},
              !.nozzle_temp = {0}, !.nozzle_target_temp = {0},
              !.bed_temp = {0}, !.bed_target_temp = {0},
              !.chamber_temp = {0}, !.print_progress = {0},
              !.print_remaining_time = {0}, !.current_layer = {0},
              !.total_layers = {0}, !.print_speed = {0}]

\* The branch taken when no temperature was received.
OfflineSilent(m) ==
    [m EXCEPT !.printer_online = {0},
              !.nozzle_temp = {0}, !.nozzle_target_temp = {0},
              !.bed_temp = {0}, !.bed_target_temp = {0},
              !.chamber_temp = {0}, !.print_progress = {0},
              !.print_remaining_time = {0}, !.current_layer = {0},
              !.total_layers = {0}, !.print_speed = {0},
              !.error_code = {0}, !.printer_state = {0}]

\* Mutant: a failed read zeroes the gauge.
ReadNozzleTemp_ZeroOnFailure(m, s) ==
    IF IsVal(s["nozzle_temp"])
    THEN [m EXCEPT !.nozzle_temp = {s["nozzle_temp"].v}]
    ELSE [m EXCEPT !.nozzle_temp = {0}]

ReadNozzleTemp(m, s) ==
    IF IsVal(s["nozzle_temp"])
    THEN [m EXCEPT !.nozzle_temp = {s["nozzle_temp"].v}] ELSE m

ReadBedTemp(m, s) ==
    IF IsVal(s["bed_temp"])
    THEN [m EXCEPT !.bed_temp = {s["bed_temp"].v}] ELSE m

ReadChamberTemp(m, s) ==
    IF IsVal(s["chamber_temp"])
    THEN [m EXCEPT !.chamber_temp = {s["chamber_temp"].v}] ELSE m

\* data_received after the three temperature blocks.
DataReceived(s) == \E f \in TempFields : IsVal(s[f])

ReadProgress(m, s) ==
    IF IsVal(s["percentage"])
    THEN [m EXCEPT !.print_progress = {s["percentage"].v}] ELSE m

ReadRemainingTime(m, s) ==
    IF IsVal(s["time"])
    THEN [m EXCEPT !.print_remaining_time = {s["time"].v * 60}] ELSE m

ReadCurrentLayer(m, s) ==
    IF IsVal(s["current_layer"])
    THEN [m EXCEPT !.current_layer = {s["current_layer"].v}] ELSE m

ReadTotalLayers(m, s) ==
    IF IsVal(s["total_layer"])
    THEN [m EXCEPT !.total_layers = {s["total_layer"].v}] ELSE m

ReadPrintSpeed(m, s) ==
    IF IsVal(s["print_speed"])
    THEN [m EXCEPT !.print_speed = {s["print_speed"].v}] ELSE m

\* In metrics.wifi_signal.labels(printer=name).set(float(signal_str)) the
\* child is looked up, and created with value 0 when it is new, before the
\* argument is evaluated; float() raising is caught by the block's own
\* handler.
ReadWifiSignal(m, s) ==
    IF IsVal(s["wifi_signal"])
    THEN LET parsed == ParseFloat(Strip(RemoveDBm(s["wifi_signal"].v)))
             child == IF m.wifi_signal = {} THEN {0} ELSE m.wifi_signal
         IN  IF IsVal(parsed) THEN [m EXCEPT !.wifi_signal = {parsed.v}]
             ELSE [m EXCEPT !.wifi_signal = child]
    ELSE m

ReadLightState(m, s) ==
    IF IsVal(s["light_state"])
    THEN [m EXCEPT !.chamber_light =
                {IF Lower(s["light_state"].v) = "on" THEN 1 ELSE 0}]
    ELSE m

\* Mutant: the gcode state never replaces the coarse state.
StateStr_NoOverride(s) == Upper(s["state"].v)

\* The name looked up in state_mapping: the coarse state, replaced by the
\* gcode state when that is truthy and a key of the mapping.
StateStr(s) ==
    LET state_str == Upper(s["state"].v)
        gcode == s["gcode_state"]
    IN  IF TruthyStr(gcode) /\ Upper(gcode.v) \in DOMAIN state_mapping
        THEN Upper(gcode.v) ELSE state_str

\* Mutant: the key of 3 spelled FINISHED.
StateValue_FinishedKey(n) ==
    IF n = "FINISHED" THEN 3
    ELSE IF n \in DOMAIN state_mapping \ {"FINISH"} THEN state_mapping[n]
    ELSE 0

\* state_mapping.get(state_str, 0)
StateValue(n) == IF n \in DOMAIN state_mapping THEN state_mapping[n] ELSE 0

\* Nothing is published when get_state() raises or returns None; reading
\* the gcode_state attribute has its own handler.
ReadState(m, s) ==
    IF IsVal(s["state"])
    THEN [m EXCEPT !.printer_state = {StateValue(StateStr(s))}] ELSE m

ReadErrorCode(m, s) ==
    IF IsVal(s["error_code"])
    THEN [m EXCEPT !.error_code =
                {IF TruthyNum(s["error_code"]) THEN s["error_code"].v ELSE 0}]
    ELSE m

\* Mutant: the old combinations are not removed.
FileClear_Keeps(m) == m

\* The three statements of the current-file block.
FileClear(m) == [m EXCEPT !.current_file = {}]
FileLabels(m, s) ==
    [m EXCEPT !.current_file = Labels(m.current_file, s["file_name"].v)]
FileSet(m, s) ==
    [m EXCEPT !.current_file = SetChild(m.current_file, s["file_name"].v, 1)]

ReadFileName(m, s) ==
    IF TruthyStr(s["file_name"])
    THEN FileSet(FileLabels(FileClear(m), s), s) ELSE m

\* nozzle_diameter() is not called when nozzle_type() raises; both must be
\* not None.
ReadNozzleInfo(m, s) ==
    IF IsVal(s["nozzle_type"]) /\ IsVal(s["nozzle_diameter"])
    THEN LET l == <<s["nozzle_type"].v, StrDiameter(s["nozzle_diameter"].v)>>
         IN  [m EXCEPT !.nozzle_info = SetChild(Labels({}, l), l, 1)]
    ELSE m

ReadTemps(m, s) == ReadChamberTemp(ReadBedTemp(ReadNozzleTemp(m, s), s), s)

\* The online branch up to the current-file block.
OnlineHead(m, s) ==
    ReadErrorCode(ReadState(ReadLightState(ReadWifiSignal(ReadPrintSpeed(
        ReadTotalLayers(ReadCurrentLayer(ReadRemainingTime(ReadProgress(
            [m EXCEPT !.printer_online = {1}], s), s), s), s), s), s), s),
        s), s)

\* Mutant: a device that was offline is left alone for one cycle.
UpdateDevice_Debounced(m, in) ==
    IF in.conn = "raise" THEN [m EXCEPT !.printer_online = {0}]
    ELSE IF in.conn = "down" THEN OfflineDisconnected(m)
    ELSE IF m.printer_online = {0} THEN m
    ELSE LET t == ReadTemps(m, in.sample)
         IN  IF DataReceived(in.sample)
             THEN ReadNozzleInfo(
                    ReadFileName(OnlineHead(t, in.sample), in.sample),
                    in.sample)
             ELSE OfflineSilent(t)

\* The body of the loop for a device whose metrics exist.
UpdateDevice(m, in) ==
    IF in.conn = "raise" THEN [m EXCEPT !.printer_online = {0}]
    ELSE IF in.conn = "down" THEN OfflineDisconnected(m)
    ELSE LET t == ReadTemps(m, in.sample)
         IN  IF DataReceived(in.sample)
             THEN ReadNozzleInfo(
                    ReadFileName(OnlineHead(t, in.sample), in.sample),
                    in.sample)
             ELSE OfflineSilent(t)

\* The loop over self.printers from position i.  A device with no entry in
\* self.metrics raises KeyError, and so does the handler that catches it:
\* the call ends there.
RECURSIVE UpdateFrom(_, _, _, _)
UpdateFrom(ms, names, i, inp) ==
    IF i > Len(names) THEN [metrics |-> ms, raised |-> FALSE]
    ELSE IF names[i] \notin DOMAIN ms THEN [metrics |-> ms, raised |-> TRUE]
    ELSE UpdateFrom(
            [ms EXCEPT ![names[i]] = UpdateDevice(ms[names[i]], inp[names[i]])],
            names, i + 1, inp)


-----------------------------------------------------------------------------
(* connect_printers                                                        *)

\* The printers of the configuration file, in order.
Config ==
    <<[name |-> "p1", enabled |-> TRUE], [name |-> "p2", enabled |-> TRUE]>>

NoEntries == [d \in {} |-> NewMetrics]

\* The loop from position i.  outcome[i] says whether bl.Printer(...) and
\* connect() succeed.  The name is stored in printers before BambuMetrics is
\* built, and building it raises when the metric names are registered
\* already: the default registry refuses duplicates.
RECURSIVE ConnectFrom(_, _, _)
ConnectFrom(st, i, outcome) ==
    IF i > Len(Config) THEN st
    ELSE IF ~Config[i].enabled THEN ConnectFrom(st, i + 1, outcome)
    ELSE IF outcome[i] = "fail"
         THEN ConnectFrom(
                [st EXCEPT !.failed = @ \cup {Config[i].name}],
                i + 1, outcome)
    ELSE LET name == Config[i].name
             ps == IF \E j \in 1..Len(st.printers) : st.printers[j] = name
                   THEN st.printers ELSE Append(st.printers, name)
         IN  IF st.registry
             THEN ConnectFrom(
                    [st EXCEPT !.printers = ps, !.failed = @ \cup {name}],
                    i + 1, outcome)
             ELSE ConnectFrom(
                    [printers |-> ps,
                     metrics |-> (name :> [NewMetrics EXCEPT
                                              !.printer_online = {1}])
                                 @@ st.metrics,
                     registry |-> TRUE,
                     failed |-> st.failed],
                    i + 1, outcome)

\* connect_printers from the current tables.
ConnectAll(outcome) ==
    ConnectFrom([printers |-> printers, metrics |-> metrics,
                 registry |-> registry, failed |-> failed], 1, outcome)

-----------------------------------------------------------------------------
(* The state machine.                                                      *)

Init ==
    /\ printers = <<>>
    /\ metrics = NoEntries
    /\ registry = FALSE
    /\ phase = "STARTING"
    /\ cycle = 0
    /\ inputs = NoEntries
    /\ prev = NoEntries
    /\ raised = FALSE
    /\ lastfile = NoEntries
    /\ upd = "idle"
    /\ scraped = [files |-> NoEntries, last |-> NoEntries, cur |-> NoEntries]
    /\ running = FALSE
    /\ loc = "new"
    /\ failed = {}
    /\ sleeps = 0
    /\ slept = 0
    /\ elapsed = 0
    /\ signal = ""
    /\ after = [cycles |-> 0, sleeps |-> 0]
    /\ disconnects = [d \in {} |-> <<>>]
    /\ camera = [request |-> "", handle |-> "", during |-> ""]
    /\ trail = <<>>

\* run() up to the main loop: connect_printers, then the empty-fleet test.
ConnectPrinters ==
    /\ phase = "STARTING"
    /\ loc = "new"
    /\ \E outcome \in [1..Len(Config) -> {"ok", "fail"}] :
          LET st == ConnectAll(outcome)
          IN  /\ printers' = st.printers
              /\ metrics' = st.metrics
              /\ registry' = st.registry
              /\ failed' = st.failed
              /\ prev' = st.metrics
              /\ lastfile' = [d \in DOMAIN st.metrics |-> ""]
              /\ phase' = IF st.printers = <<>> THEN "EXITED" ELSE "RUNNING"
    /\ running' = TRUE
    /\ UNCHANGED <<cycle, inputs, raised, upd, scraped, life>>

\* The filename a cycle publishes for a device, "" when it publishes none.
FileRead(in) ==
    IF in.conn = "up" /\ DataReceived(in.sample)
       /\ TruthyStr(in.sample["file_name"])
    THEN in.sample["file_name"].v ELSE ""

\* One call of update_metrics with the device answers drawn from I.
UpdateMetricsOver(I) ==
    /\ phase = "RUNNING"
    /\ upd = "idle"
    /\ cycle < MaxCycles
    /\ \E inp \in [DOMAIN metrics -> I] :
          LET r == UpdateFrom(metrics, printers, 1, inp)
          IN  /\ metrics' = r.metrics
              /\ raised' = r.raised
              /\ inputs' = inp
              /\ lastfile' = [d \in DOMAIN metrics |-> FileRead(inp[d])]
    /\ prev' = metrics
    /\ cycle' = cycle + 1
    /\ UNCHANGED <<printers, registry, phase, upd, scraped, running, failed,
                   life>>

UpdateMetrics == UpdateMetricsOver(Inputs)

Next == ConnectPrinters \/ UpdateMetrics

Spec == Init /\ [][Next]_vars

\* The same machine with the answers ranging over the state pairs.
UpdateMetricsStates == UpdateMetricsOver(InputsOver(StatePairs))

NextStates == ConnectPrinters \/ UpdateMetricsStates

SpecStates == Init /\ [][NextStates]_vars


-----------------------------------------------------------------------------
(* The same machine with the current-file block of the first device taken  *)
(* one statement at a time, and the scrape that the metrics HTTP server's  *)
(* thread can run between any two statements.                              *)

\* A nominal printer with every answer of get_file_name(), and a silent one.
FileSamples ==
    {[Nominal EXCEPT !["file_name"] = r] : r \in Dom("file_name")}
        \cup {AllNone}

\* The call reaches the current-file block of the first device with a
\* filename to publish.
ReachesFileBlock(inp) ==
    /\ printers[1] \in DOMAIN metrics
    /\ FileRead(inp[printers[1]]) # ""

\* update_metrics up to get_file_name() of the first device; the whole call
\* when the current-file block publishes nothing.
PollBegin ==
    /\ phase = "RUNNING"
    /\ upd = "idle"
    /\ cycle < MaxCycles
    /\ \E inp \in [DOMAIN metrics -> InputsOver(FileSamples)] :
          /\ inputs' = inp
          /\ IF ReachesFileBlock(inp)
             THEN LET d == printers[1]
                      s == inp[d].sample
                  IN  /\ metrics' = [metrics EXCEPT
                                        ![d] = OnlineHead(ReadTemps(@, s), s)]
                      /\ upd' = "read"
                      /\ UNCHANGED <<raised, lastfile>>
             ELSE LET r == UpdateFrom(metrics, printers, 1, inp)
                  IN  /\ metrics' = r.metrics
                      /\ raised' = r.raised
                      /\ upd' = "idle"
                      /\ lastfile' =
                            [d \in DOMAIN metrics |-> FileRead(inp[d])]
    /\ prev' = metrics
    /\ cycle' = cycle + 1
    /\ UNCHANGED <<printers, registry, phase, scraped, running, failed, life>>

\* metrics.current_file._metrics.clear()
StepClear ==
    /\ upd = "read"
    /\ metrics' = [metrics EXCEPT ![printers[1]] = FileClear(@)]
    /\ upd' = "cleared"
    /\ UNCHANGED <<printers, registry, phase, cycle, inputs, prev, raised,
                   lastfile, scraped, running, failed, life>>

\* metrics.current_file.labels(printer=name, filename=str(filename))
StepLabels ==
    /\ upd = "cleared"
    /\ metrics' = [metrics EXCEPT ![printers[1]] =
                        FileLabels(@, inputs[printers[1]].sample)]
    /\ upd' = "labelled"
    /\ UNCHANGED <<printers, registry, phase, cycle, inputs, prev, raised,
                   lastfile, scraped, running, failed, life>>

\* .set(1), then the rest of the call.
StepSet ==
    /\ upd = "labelled"
    /\ LET d == printers[1]
           s == inputs[d].sample
           r == UpdateFrom(
                    [metrics EXCEPT ![d] = ReadNozzleInfo(FileSet(@, s), s)],
                    printers, 2, inputs)
       IN  /\ metrics' = r.metrics
           /\ raised' = r.raised
    /\ lastfile' = [d \in DOMAIN metrics |-> FileRead(inputs[d])]
    /\ upd' = "idle"
    /\ UNCHANGED <<printers, registry, phase, cycle, inputs, prev, scraped,
                   running, failed, life>>

\* A scrape of the current-file gauge.  Beside the combinations it returns,
\* the model notes the filename the last finished cycle read (last) and the
\* one the running cycle read (cur; between cycles, last again).
Scrape ==
    /\ scraped' =
        [files |-> [d \in DOMAIN metrics |-> metrics[d].current_file],
         last |-> lastfile,
         cur |-> [d \in DOMAIN metrics |->
                    IF upd = "idle" THEN lastfile[d]
                    ELSE FileRead(inputs[d])]]
    /\ UNCHANGED <<printers, metrics, registry, phase, cycle, inputs, prev,
                   raised, lastfile, upd, running, failed, life>>

NextScrape ==
    ConnectPrinters \/ PollBegin \/ StepClear \/ StepLabels \/ StepSet
        \/ Scrape

SpecScrape == Init /\ [][NextScrape]_vars

-----------------------------------------------------------------------------
(* run() taken one statement at a time, with the signal handler, which the *)
(* interpreter runs between two statements of the main thread.             *)

\* update_interval, at its default.
UpdateInterval == 5

\* Longest update_metrics call explored, in seconds.
MaxElapsed == 1

\* The answers of a nominal and of a silent printer.
InputsRun == InputsOver({Nominal, AllNone})

\* Mutant: fixed-rate scheduling, the cycle's duration is taken off.
SleepArg_FixedRate(e) == UpdateInterval - e

\* What time.sleep is asked for after a cycle that took e seconds.
SleepArg(e) == UpdateInterval

\* Mutant: the exception leaves run().
AfterCycle_Escapes(r) == IF r THEN "done" ELSE "sleep"

\* Where the loop body goes when update_metrics has raised (r) or returned.
AfterCycle(r) == IF r THEN "sleep_err" ELSE "sleep"

\* run() down to flask_thread.start(): the flag, the signal handlers, the
\* two servers.
RunStart ==
    /\ loc = "new"
    /\ running' = TRUE
    /\ loc' = "connect"
    /\ UNCHANGED <<printers, metrics, registry, phase, cycle, inputs, prev,
                   raised, lastfile, upd, scraped, failed, sleeps, slept,
                   elapsed, signal, after, disconnects, camera, trail>>

\* self.connect_printers() and the empty-fleet test.
RunConnect ==
    /\ loc = "connect"
    /\ \E outcome \in [1..Len(Config) -> {"ok", "fail"}] :
          LET st == ConnectAll(outcome)
          IN  /\ printers' = st.printers
              /\ metrics' = st.metrics
              /\ registry' = st.registry
              /\ failed' = st.failed
              /\ prev' = st.metrics
              /\ lastfile' = [d \in DOMAIN st.metrics |-> ""]
              /\ phase' = IF st.printers = <<>> THEN "EXITED" ELSE "RUNNING"
              /\ loc' = IF st.printers = <<>> THEN "done" ELSE "top"
    /\ UNCHANGED <<cycle, inputs, raised, upd, scraped, running, sleeps,
                   slept, elapsed, signal, after, disconnects, camera, trail>>

\* while self.running: the test.  The loop is left for the cleanup when the
\* flag is false.
LoopTop ==
    /\ loc = "top"
    /\ IF running
       THEN /\ cycle < MaxCycles
            /\ loc' = "update"
            /\ phase' = phase
       ELSE /\ loc' = "disconnect"
            /\ phase' = "STOPPING"
    /\ UNCHANGED <<printers, metrics, registry, cycle, inputs, prev, raised,
                   lastfile, upd, scraped, running, failed, sleeps, slept,
                   elapsed, signal, after, disconnects, camera, trail>>

\* self.update_metrics() inside the loop's try.
RunUpdate ==
    /\ loc = "update"
    /\ \E inp \in [DOMAIN metrics -> InputsRun] :
          LET r == UpdateFrom(metrics, printers, 1, inp)
          IN  /\ metrics' = r.metrics
              /\ raised' = r.raised
              /\ inputs' = inp
              /\ lastfile' = [d \in DOMAIN metrics |-> FileRead(inp[d])]
              /\ loc' = AfterCycle(r.raised)
    /\ \E e \in 0..MaxElapsed : elapsed' = e
    /\ prev' = metrics
    /\ cycle' = cycle + 1
    /\ sleeps' = 0
    /\ after' = IF signal = "" THEN after
                ELSE [after EXCEPT !.cycles = @ + 1]
    /\ UNCHANGED <<printers, registry, phase, upd, scraped, running, failed,
                   slept, signal, disconnects, camera, trail>>

\* One time.sleep(update_interval) of the loop, from position at.
Sleep(at) ==
    /\ loc = at
    /\ sleeps' = sleeps + 1
    /\ slept' = SleepArg(elapsed)
    /\ after' = IF signal = "" THEN after
                ELSE [after EXCEPT !.sleeps = @ + 1]
    /\ loc' = "top"
    /\ UNCHANGED <<printers, metrics, registry, phase, cycle, inputs, prev,
                   raised, lastfile, upd, scraped, running, failed, elapsed,
                   signal, disconnects, camera, trail>>

\* The sleep of the try, after update_metrics returned.
SleepNormal == Sleep("sleep")

\* The sleep of the except handler, after the error was logged.
SleepAfterError == Sleep("sleep_err")

\* Mutant: the first disconnect() that raises ends the loop.
RECURSIVE DisconnectFrom_StopsAtError(_, _, _)
DisconnectFrom_StopsAtError(ds, i, outcome) ==
    IF i > Len(printers) THEN ds
    ELSE IF outcome[i] = "raise"
         THEN [ds EXCEPT ![printers[i]] = Append(@, outcome[i])]
    ELSE DisconnectFrom_StopsAtError(
            [ds EXCEPT ![printers[i]] = Append(@, outcome[i])],
            i + 1, outcome)

\* disconnect_printers from position i.  outcome[i] says whether
\* disconnect() of the i-th handle raises.
RECURSIVE DisconnectFrom(_, _, _)
DisconnectFrom(ds, i, outcome) ==
    IF i > Len(printers) THEN ds
    ELSE DisconnectFrom([ds EXCEPT ![printers[i]] = Append(@, outcome[i])],
                        i + 1, outcome)

\* self.disconnect_printers() and the end of run().
Disconnect ==
    /\ loc = "disconnect"
    /\ \E outcome \in [1..Len(printers) -> {"ok", "raise"}] :
          disconnects' =
              DisconnectFrom(
                  [d \in {printers[i] : i \in 1..Len(printers)} |-> <<>>],
                  1, outcome)
    /\ phase' = "STOPPED"
    /\ loc' = "done"
    /\ UNCHANGED <<printers, metrics, registry, cycle, inputs, prev, raised,
                   lastfile, upd, scraped, running, failed, sleeps, slept,
                   elapsed, signal, after, camera, trail>>

\* Mutant: the handler moves the lifecycle itself.
SignalHandler_Cleans ==
    /\ loc \notin {"new", "done"}
    /\ running' = FALSE
    /\ phase' = "STOPPING"
    /\ signal' = IF signal = "" THEN loc ELSE signal
    /\ UNCHANGED <<printers, metrics, registry, cycle, inputs, prev, raised,
                   lastfile, upd, scraped, failed, loc, sleeps, slept,
                   elapsed, after, disconnects, camera, trail>>

\* _signal_handler, once the handlers are installed and while run() has
\* not returned.
SignalHandler ==
    /\ loc \notin {"new", "done"}
    /\ running' = FALSE
    /\ signal' = IF signal = "" THEN loc ELSE signal
    /\ UNCHANGED <<printers, metrics, registry, phase, cycle, inputs, prev,
                   raised, lastfile, upd, scraped, failed, loc, sleeps, slept,
                   elapsed, after, disconnects, camera, trail>>

\* The statements of the main thread.
MainThread ==
    RunStart \/ RunConnect \/ LoopTop \/ RunUpdate \/ SleepNormal
        \/ SleepAfterError \/ Disconnect

NextRun == MainThread \/ SignalHandler

SpecRun == Init /\ [][NextRun]_vars

\* The main thread keeps executing: device reads and sleeps return.
SpecRunFair == SpecRun /\ WF_vars(MainThread)

-----------------------------------------------------------------------------
(* The camera server: the Flask application run() starts in a thread of    *)
(* its own, serving requests while the main thread goes on.                *)

\* GET /camera
CameraFeed ==
    /\ loc \notin {"new", "done"}
    /\ camera' = [request |-> "camera",
                  handle |-> IF printers = <<>> THEN "" ELSE printers[1],
                  during |-> loc]
    /\ UNCHANGED <<printers, metrics, registry, phase, cycle, inputs, prev,
                   raised, lastfile, upd, scraped, running, failed, loc,
                   sleeps, slept, elapsed, signal, after, disconnects, trail>>

\* GET /health
Health ==
    /\ loc \notin {"new", "done"}
    /\ camera' = [request |-> "health", handle |-> "", during |-> loc]
    /\ UNCHANGED <<printers, metrics, registry, phase, cycle, inputs, prev,
                   raised, lastfile, upd, scraped, running, failed, loc,
                   sleeps, slept, elapsed, signal, after, disconnects, trail>>

NextCamera == NextRun \/ CameraFeed \/ Health

SpecCamera == Init /\ [][NextCamera]_vars

-----------------------------------------------------------------------------
(* The machine of Spec over more cycles and fewer answers, for a device    *)
(* that goes offline and comes back.                                       *)

\* Number of poll cycles explored for a flapping device.
MaxFlap == 3

\* Two nominal printers that differ in a reading, a silent one, and one
\* whose temperatures are absent.
InputsFlap ==
    InputsOver({Nominal, [Nominal EXCEPT !["nozzle_temp"] = Val(2200)],
                AllNone, TempsAbsent(None)})

\* The branch of the loop body the answers select.
Liveness(in) ==
    IF in.conn = "raise" THEN "ERROR"
    ELSE IF in.conn = "down" THEN "OFFLINE_DISCONNECTED"
    ELSE IF DataReceived(in.sample) THEN "ONLINE"
    ELSE "OFFLINE_SILENT"

\* One call of update_metrics; the branch the first device took is added
\* to the trail.
PollFlap ==
    /\ phase = "RUNNING"
    /\ upd = "idle"
    /\ cycle < MaxFlap
    /\ \E inp \in [DOMAIN metrics -> InputsFlap] :
          LET r == UpdateFrom(metrics, printers, 1, inp)
          IN  /\ metrics' = r.metrics
              /\ raised' = r.raised
              /\ inputs' = inp
              /\ lastfile' = [d \in DOMAIN metrics |-> FileRead(inp[d])]
              /\ trail' = IF printers[1] \in DOMAIN metrics
                          THEN Append(trail, Liveness(inp[printers[1]]))
                          ELSE trail
    /\ prev' = metrics
    /\ cycle' = cycle + 1
    /\ UNCHANGED <<printers, registry, phase, upd, scraped, running, failed,
                   loc, sleeps, slept, elapsed, signal, after, disconnects,
                   camera>>

NextFlap == ConnectPrinters \/ PollFlap

SpecFlap == Init /\ [][NextFlap]_vars

-----------------------------------------------------------------------------
(* Vocabulary of the properties.  These definitions state what the         *)
(* specification expects; they do not use the operators that model the     *)
(* code's conversions.                                                     *)

Devices == DOMAIN metrics

\* The device was polled in the last cycle.
Polled(d) == cycle >= 1 /\ d \in DOMAIN inputs

Connected(d) == inputs[d].conn = "up"
Disconnected(d) == inputs[d].conn = "down"
Sample(d) == inputs[d].sample

\* The gauges the specification calls telemetry gauges.
TelemetryGauges ==
    {"nozzle_temp", "bed_temp", "chamber_temp", "print_progress",
     "print_remaining_time", "current_layer", "total_layers", "print_speed",
     "wifi_signal", "chamber_light", "error_code", "printer_state"}

\* The fixed telemetry set of the liveness rule.
TelemetryFields == FieldSet \ {"gcode_state"}

\* A getter returned a value that can be published.
Usable(s, f) ==
    /\ IsVal(s[f])
    /\ f = "wifi_signal" => s[f].v # WifiBad
    /\ f \in {"file_name", "gcode_state"} => s[f].v # ""

\* The gauge that carries a field.
GaugeOf(f) ==
    CASE f = "percentage" -> "print_progress"
      [] f = "time" -> "print_remaining_time"
      [] f = "total_layer" -> "total_layers"
      [] f = "light_state" -> "chamber_light"
      [] f = "state" -> "printer_state"
      [] f = "gcode_state" -> "printer_state"
      [] f = "file_name" -> "current_file"
      [] f = "nozzle_type" -> "nozzle_info"
      [] f = "nozzle_diameter" -> "nozzle_info"
      [] OTHER -> f

\* The canonical encoding, with the names the exporter recognizes.
Encoding(n) ==
    CASE n = "IDLE" -> 0
      [] n = "PRINTING" -> 1
      [] n = "RUNNING" -> 1
      [] n = "PAUSED" -> 2
      [] n = "FINISH" -> 3
      [] n = "FAILED" -> 4
      [] OTHER -> 0

Recognized == {"IDLE", "PRINTING", "RUNNING", "PAUSED", "FINISH", "FAILED"}

UpperCased(n) == IF n = "paused" THEN "PAUSED" ELSE n

\* The reconciled name: the granular state when present and recognized,
\* else the coarse state, "" when that is absent too.
Reconciled(s) ==
    IF Usable(s, "gcode_state") /\ UpperCased(s["gcode_state"].v) \in Recognized
    THEN UpperCased(s["gcode_state"].v)
    ELSE IF IsVal(s["state"]) THEN UpperCased(s["state"].v) ELSE ""

\* Gauge g of m shows what field f of sample s reads (f usable in s).
Shows(m, s, f) ==
    CASE f \in {"nozzle_temp", "bed_temp", "chamber_temp", "current_layer",
                "print_speed", "error_code"} -> m[f] = {s[f].v}
      [] f = "percentage" -> m.print_progress = {s[f].v}
      [] f = "total_layer" -> m.total_layers = {s[f].v}
      [] f = "time" -> m.print_remaining_time = {60 * s[f].v}
      [] f = "wifi_signal" -> m.wifi_signal = {-63}
      [] f = "light_state" ->
            m.chamber_light = {IF s[f].v \in {"on", "ON"} THEN 1 ELSE 0}
      [] f = "state" -> m.printer_state = {Encoding(Reconciled(s))}
      [] f = "gcode_state" -> TRUE
      [] f = "file_name" -> m.current_file = {<<s[f].v, 1>>}
      [] f \in {"nozzle_type", "nozzle_diameter"} ->
            (Usable(s, "nozzle_type") /\ Usable(s, "nozzle_diameter"))
                => m.nozzle_info = {<<<<"hardened_steel", "0.4">>, 1>>}

-----------------------------------------------------------------------------
(* Offline reset and liveness.                                             *)

\* C1: after a cycle in which the transport check reported not connected,
\* the online gauge is 0 and no telemetry gauge, wifi signal and chamber
\* light included, shows anything but 0.
C1_DisconnectedResetsAll ==
    \A d \in Devices :
        (Polled(d) /\ Disconnected(d)) =>
            /\ metrics[d].printer_online = {0}
            /\ \A g \in TelemetryGauges : metrics[d][g] \subseteq {0}

\* C2: after a cycle in which the transport is connected and every getter
\* returned None or raised, online is 0 and the gauges are what the
\* disconnected branch makes of the gauges the cycle started with.
C2_SilentResetSameAsDisconnected ==
    \A d \in Devices :
        (Polled(d) /\ Connected(d) /\ \A f \in FieldSet : ~IsVal(Sample(d)[f]))
            => /\ metrics[d].printer_online = {0}
               /\ metrics[d] = OfflineDisconnected(prev[d])

C2_Witness ==
    \E d \in Devices :
        /\ Polled(d) /\ Connected(d)
        /\ \A f \in FieldSet : ~IsVal(Sample(d)[f])
        /\ prev[d].nozzle_temp = {2105}
        /\ prev[d].printer_state = {1}
        /\ metrics[d].nozzle_temp = {0}
        /\ metrics[d].printer_state = {0}

\* C3: the online gauge follows the liveness rule: 0 when the transport is
\* not connected, 0 when it is connected and no telemetry field returned
\* data, 1 with every usable field published when at least one did.
C3_OnlineIffAnyFieldReturnedData ==
    \A d \in Devices :
        (Polled(d) /\ inputs[d].conn \in {"up", "down"}) =>
            IF Disconnected(d) THEN metrics[d].printer_online = {0}
            ELSE IF \A f \in TelemetryFields : ~IsVal(Sample(d)[f])
                 THEN metrics[d].printer_online = {0}
            ELSE /\ metrics[d].printer_online = {1}
                 /\ \A f \in TelemetryFields :
                        Usable(Sample(d), f) => Shows(metrics[d], Sample(d), f)


-----------------------------------------------------------------------------
(* Dynamic-label metrics.                                                  *)

\* The device was ONLINE in the last cycle, so the dynamic-label blocks ran.
Online(d) == Polled(d) /\ Connected(d) /\ DataReceived(Sample(d))

C5_AbsentValueEmptiesMetric ==
    \A d \in Devices :
        Online(d) =>
            /\ ~Usable(Sample(d), "file_name") => metrics[d].current_file = {}
            /\ ~(IsVal(Sample(d)["nozzle_type"])
                    /\ IsVal(Sample(d)["nozzle_diameter"]))
                  => metrics[d].nozzle_info = {}

-----------------------------------------------------------------------------
(* State reconciliation (checked under SpecStates).                        *)

\* C7 as stated: in an ONLINE cycle a granular state that is present and
\* recognized is what printer_state publishes, whatever the coarse state
\* is, absent included; otherwise the upper-cased coarse state is.
C7_GranularOverridesAnyCoarse ==
    \A d \in Devices :
        (Online(d) /\ Reconciled(Sample(d)) # "") =>
            metrics[d].printer_state = {Encoding(Reconciled(Sample(d)))}

\* C7 amended: the same when the coarse state is present; when the coarse
\* state is None or its getter raises, printer_state keeps the value it had
\* before the cycle, whatever the granular state is.
C7_ReconcileWhenCoarsePresent ==
    \A d \in Devices :
        Online(d) =>
            IF IsVal(Sample(d)["state"])
            THEN metrics[d].printer_state = {Encoding(Reconciled(Sample(d)))}
            ELSE metrics[d].printer_state = prev[d].printer_state

C7_Witness ==
    \E d \in Devices :
        /\ cycle = 2 /\ Online(d)
        /\ Sample(d)["state"] = Val("PRINTING")
        /\ Sample(d)["gcode_state"] = Val("paused")
        /\ prev[d].printer_state = {4}
        /\ metrics[d].printer_state = {2}

\* The examples of the claim.
C7_Examples ==
    \A d \in Devices :
        Online(d) =>
            LET c == Sample(d)["state"]
                g == Sample(d)["gcode_state"]
                v == metrics[d].printer_state
            IN  /\ (c = Val("PRINTING") /\ g = Val("PAUSED")) => v = {2}
                /\ (c = Val("RUNNING") /\ g = None) => v = {1}
                /\ (c = Val("PRINTING") /\ g = Val("BOGUS")) => v = {1}
                /\ (c = Val("BOGUS") /\ g = None) => v = {0}

\* The name C8 reconciles to: the five canonical names of the specification
\* and RUNNING are recognized.
Canonical == {"IDLE", "PRINTING", "PAUSED", "FINISHED", "FAILED"}

C8_Reconciled(s) ==
    IF Usable(s, "gcode_state")
       /\ UpperCased(s["gcode_state"].v) \in Canonical \cup {"RUNNING"}
    THEN UpperCased(s["gcode_state"].v) ELSE UpperCased(s["state"].v)

\* C8 as stated: an ONLINE cycle that reconciles to IDLE, PRINTING, PAUSED,
\* FINISHED or FAILED sets printer_state to 0, 1, 2, 3 or 4.
C8_FinishedIsThree ==
    \A d \in Devices :
        (Online(d) /\ IsVal(Sample(d)["state"])) =>
            LET n == C8_Reconciled(Sample(d))
                v == metrics[d].printer_state
            IN  /\ n = "IDLE" => v = {0}
                /\ n = "PRINTING" => v = {1}
                /\ n = "PAUSED" => v = {2}
                /\ n = "FINISHED" => v = {3}
                /\ n = "FAILED" => v = {4}

\* C8 amended: the name encoded as 3 is FINISH; FINISHED is not a
\* recognized name and is published as 0.
C8_FinishIsThree ==
    \A d \in Devices :
        (Online(d) /\ IsVal(Sample(d)["state"])) =>
            LET n == Reconciled(Sample(d))
                v == metrics[d].printer_state
            IN  /\ n = "IDLE" => v = {0}
                /\ n \in {"PRINTING", "RUNNING"} => v = {1}
                /\ n = "PAUSED" => v = {2}
                /\ n = "FINISH" => v = {3}
                /\ n = "FAILED" => v = {4}
                /\ n = "FINISHED" => v = {0}

C8_Witness ==
    \E d \in Devices :
        /\ Online(d)
        /\ Sample(d)["state"] = Val("PRINTING")
        /\ Sample(d)["gcode_state"] = Val("FINISH")
        /\ metrics[d].printer_state = {3}


-----------------------------------------------------------------------------
(* Per-field fault isolation.                                              *)

\* C9: in a cycle with the transport connected in which some getters raise
\* and the others return values, every getter that returned a usable value
\* has it published, whichever getters raised.
C9_EveryPresentFieldPublished ==
    \A d \in Devices :
        (Polled(d) /\ Connected(d) /\ \A f \in FieldSet : Sample(d)[f] # None)
            => \A f \in FieldSet :
                    Usable(Sample(d), f) => Shows(metrics[d], Sample(d), f)

\* f is the one field of the sample whose getter failed or returned
\* nothing.  (A wifi string that does not parse was read: see C19.)
OnlyFailure(s, f) ==
    /\ ~Usable(s, f)
    /\ f = "wifi_signal" => ~IsVal(s[f])
    /\ \A g \in FieldSet \ {f} : Usable(s, g)

\* C10: a cycle in which exactly one getter fails or returns nothing and
\* all others report data leaves the device ONLINE, leaves the gauge of the
\* failed field as it was before the cycle, and publishes the fresh value
\* of every other field.
C10_SingleFailureKeepsLastValue ==
    \A d \in Devices : \A f \in FieldSet :
        (Polled(d) /\ Connected(d) /\ OnlyFailure(Sample(d), f)) =>
            /\ metrics[d].printer_online = {1}
            /\ f # "gcode_state" =>
                    metrics[d][GaugeOf(f)] = prev[d][GaugeOf(f)]
            /\ \A g \in FieldSet \ {f} : Shows(metrics[d], Sample(d), g)

C10_Witness ==
    \E d \in Devices :
        /\ cycle = 2 /\ Connected(d)
        /\ OnlyFailure(Sample(d), "nozzle_temp")
        /\ Sample(d)["nozzle_temp"] = Raise
        /\ prev[d].nozzle_temp = {2200}
        /\ metrics[d].nozzle_temp = {2200}
        /\ metrics[d].bed_temp = {600}
        /\ metrics[d].printer_online = {1}


-----------------------------------------------------------------------------
(* Scrapes concurrent with the poll loop (checked under SpecScrape).       *)

\* C6: a scrape of a device whose filename was present in the previous
\* cycle and is present in the current one returns exactly one current-file
\* combination, with value 1.
C6_ScrapeSeesOneActiveFile ==
    \A d \in DOMAIN scraped.files :
        (scraped.last[d] # "" /\ scraped.cur[d] # "") =>
            \E l \in {"a.gcode", "b.gcode"} : scraped.files[d] = {<<l, 1>>}

-----------------------------------------------------------------------------
(* Startup (checked under SpecRun).                                        *)

\* The keys of self.printers.
Fleet == {printers[i] : i \in 1..Len(printers)}

\* C11: once the connection attempts are over, a device whose attempt was
\* logged as failed is not in printers and is not polled; the run goes on
\* when some device is in the fleet; with an empty fleet the run has ended
\* and no poll cycle was made.
C11_FailedDeviceExcluded ==
    phase # "STARTING" =>
        /\ \A d \in failed : d \notin Fleet /\ ~Polled(d)
        /\ Fleet # {} => phase # "EXITED"
        /\ Fleet = {} => (phase = "EXITED" /\ cycle = 0)

\* C12: once connect_printers has returned, printers and metrics have the
\* same keys.
C12_SameKeys ==
    phase # "STARTING" => Fleet = DOMAIN metrics

-----------------------------------------------------------------------------
(* The poll loop (checked under SpecRun).                                  *)

\* C13: a cycle that raised is followed by the handler's sleep of the full
\* interval and then by the loop test, never by the end of run(); the loop
\* is left only with the running flag false, after a signal.
C13_RaisedCycleKeepsLooping ==
    /\ loc = "sleep_err" => (raised /\ phase = "RUNNING")
    /\ (raised /\ loc \in {"sleep", "sleep_err"}) => loc = "sleep_err"
    /\ (raised /\ loc \in {"top", "update"}) =>
            (sleeps = 1 /\ slept = UpdateInterval /\ phase = "RUNNING")
    /\ phase \in {"STOPPING", "STOPPED"} => (~running /\ signal # "")
    /\ (cycle >= 1 /\ loc = "done") => phase = "STOPPED"

C13_Witness ==
    /\ raised /\ cycle = 1
    /\ loc = "update" /\ running
    /\ sleeps = 1

-----------------------------------------------------------------------------
(* Shutdown (checked under SpecRunFair).                                   *)

\* The loop has been left for the cleanup.
LoopLeft == phase \in {"STOPPING", "STOPPED"}

\* C14: a signal delivered while the loop is RUNNING leads to STOPPED;
\* after the signal at most one cycle and one sleep take place and none
\* once the loop has been left; when STOPPED is reached disconnect() has
\* been called exactly once on every handle of the fleet, whether or not
\* some of the calls raised.
C14_ShutdownReachesStopped ==
    /\ (signal # "" /\ phase = "RUNNING") ~> (phase = "STOPPED")
    /\ [](after.cycles <= 1 /\ after.sleeps <= 1)
    /\ [][LoopLeft => (cycle' = cycle /\ sleeps' = sleeps)]_vars
    /\ [](phase = "STOPPED" =>
            /\ DOMAIN disconnects = Fleet
            /\ \A d \in Fleet : Len(disconnects[d]) = 1)

C14_Witness ==
    /\ phase = "STOPPED"
    /\ signal = "update"
    /\ after = [cycles |-> 1, sleeps |-> 1]
    /\ Len(printers) = 2
    /\ disconnects[printers[1]] = <<"raise">>
    /\ disconnects[printers[2]] = <<"ok">>

-----------------------------------------------------------------------------
(* The lifecycle (checked under SpecRun).                                  *)

\* The lifecycle's transitions.
Forward ==
    {<<"STARTING", "RUNNING">>, <<"RUNNING", "STOPPING">>,
     <<"STOPPING", "STOPPED">>, <<"STARTING", "EXITED">>}

LifecycleStep ==
    /\ phase' # phase => <<phase, phase'>> \in Forward
    /\ cycle' # cycle =>
            /\ phase = "RUNNING" /\ phase' = "RUNNING"
            /\ loc \notin {"new", "connect"}
            /\ DOMAIN disconnects = {}
    /\ printers' # printers => phase = "STARTING"
    /\ disconnects' # disconnects => phase = "STOPPING"

\* C15: every step of the run keeps to STARTING -> RUNNING -> STOPPING ->
\* STOPPED (or STARTING -> EXITED): the cycle counter moves only in
\* RUNNING, before any disconnect; the printers table changes only in
\* STARTING, where no cycle has been made; handles are disconnected only in
\* STOPPING.
C15_LifecycleForwardOnly == [][LifecycleStep]_vars

C15_Witness ==
    /\ phase = "STOPPED"
    /\ signal = "connect"
    /\ Fleet # {}
    /\ cycle = 0

-----------------------------------------------------------------------------
(* Ownership of the device handles (checked under SpecCamera).             *)

\* The main thread is connecting, polling or disconnecting.
PollLoopBusy(l) == l \in {"connect", "update", "disconnect"}

\* C16: a request served by the camera server's thread calls no method on
\* a device handle, and does not read the printers table while the main
\* thread is connecting, polling or disconnecting.
C16_HandlesOwnedByPollLoop ==
    camera.request # "" =>
        (camera.handle = "" /\ ~PollLoopBusy(camera.during))

-----------------------------------------------------------------------------
(* Offline devices (checked under Spec).                                   *)

\* The gauges an offline device shows as 0.
ZeroedGauges ==
    {"nozzle_temp", "nozzle_target_temp", "bed_temp", "bed_target_temp",
     "chamber_temp", "print_progress", "print_remaining_time",
     "current_layer", "total_layers", "print_speed", "error_code",
     "printer_state"}

\* C17: a polled device whose online gauge is 0 at the end of the cycle has
\* its temperature, progress, remaining-time, layer, speed, error-code and
\* printer_state gauges at 0, whichever path set the online gauge.
C17_OfflineMeansZeroed ==
    \A d \in Devices :
        (Polled(d) /\ metrics[d].printer_online = {0}) =>
            \A g \in ZeroedGauges : metrics[d][g] = {0}

-----------------------------------------------------------------------------
(* Statelessness of the liveness decision (checked under SpecFlap).        *)

\* The online value and the reset decision as functions of one cycle's
\* transport flag and field results.
OnlineOf(in) ==
    IF in.conn = "up" /\ \E f \in TempFields : IsVal(in.sample[f])
    THEN 1 ELSE 0

ResetOf(in) ==
    \/ in.conn = "down"
    \/ in.conn = "up" /\ \A f \in TempFields : ~IsVal(in.sample[f])

\* C18: after every cycle the online gauge of a polled device is OnlineOf
\* of that cycle's answers; when ResetOf of these answers holds the reset
\* gauges are 0, and when the device is online every field that returned
\* data is shown; nothing depends on the gauges or answers of earlier
\* cycles.
C18_LivenessStateless ==
    \A d \in Devices :
        Polled(d) =>
            /\ metrics[d].printer_online = {OnlineOf(inputs[d])}
            /\ ResetOf(inputs[d]) =>
                    \A g \in ZeroedGauges : metrics[d][g] = {0}
            /\ OnlineOf(inputs[d]) = 1 =>
                    \A f \in FieldSet :
                        Usable(Sample(d), f) => Shows(metrics[d], Sample(d), f)

\* Disconnected, then online, then silent: reset, fresh, reset.
C18_Witness ==
    /\ trail = <<"OFFLINE_DISCONNECTED", "ONLINE", "OFFLINE_SILENT">>
    /\ cycle = 3
    /\ prev[printers[1]].printer_online = {1}
    /\ prev[printers[1]].nozzle_temp = {2200}
    /\ prev[printers[1]].print_progress = {50}
    /\ metrics[printers[1]].printer_online = {0}
    /\ \A g \in ZeroedGauges : metrics[printers[1]][g] = {0}

-----------------------------------------------------------------------------
(* Signal strength (checked under Spec).                                   *)

\* The fields update_metrics reads after the wifi signal.
AfterWifi ==
    {"light_state", "state", "error_code", "file_name", "nozzle_type",
     "nozzle_diameter"}

\* C19: in an online cycle the raw string '-63dBm' puts -63 on the wifi
\* gauge; the raw string 'N/A' leaves the wifi gauge as it was before the
\* cycle, as an absent answer does, the device stays online and every later
\* field that returned data is shown.
C19_WifiNormalization ==
    \A d \in Devices :
        Online(d) =>
            /\ Sample(d)["wifi_signal"] = Val(WifiGood) =>
                    metrics[d].wifi_signal = {-63}
            /\ Sample(d)["wifi_signal"] = Val(WifiBad) =>
                    /\ metrics[d].wifi_signal = prev[d].wifi_signal
                    /\ metrics[d].printer_online = {1}
                    /\ \A f \in AfterWifi :
                          Usable(Sample(d), f) =>
                              Shows(metrics[d], Sample(d), f)

-----------------------------------------------------------------------------
(* Scheduling (checked under SpecRun).                                     *)

\* C20: when the loop test or a cycle follows a cycle, exactly one sleep
\* has been made since that cycle ended and it was asked for the full
\* interval, whatever the cycle took and whether it returned or raised;
\* right after a cycle no sleep has been made yet.
C20_FixedDelay ==
    /\ (cycle >= 1 /\ loc \in {"top", "update"}) =>
            (sleeps = 1 /\ slept = UpdateInterval)
    /\ loc \in {"sleep", "sleep_err"} => sleeps = 0

C20_Witness ==
    /\ cycle = 1 /\ ~raised
    /\ elapsed = 1
    /\ loc = "update" /\ running
    /\ sleeps = 1 /\ slept = 5

-----------------------------------------------------------------------------
(* Isolation between the devices of one cycle (checked under Spec).        *)

\* The i-th device's transport check raised in the last cycle.
FailedAt(i) ==
    /\ cycle >= 1
    /\ i \in 1..Len(printers)
    /\ printers[i] \in DOMAIN inputs
    /\ inputs[printers[i]].conn = "raise"

\* C21: in a cycle over several devices in which the processing of one
\* device raised outside the per-field handlers, that device's online gauge
\* is 0, update_metrics did not raise, and every later device of the fleet
\* was processed: its online gauge shows its own answers of that cycle.
C21_ExceptionIsolated ==
    \A i \in 1..Len(printers) :
        (Len(printers) >= 2 /\ FailedAt(i)) =>
            /\ metrics[printers[i]].printer_online = {0}
            /\ ~raised
            /\ \A j \in (i + 1)..Len(printers) :
                  /\ printers[j] \in DOMAIN metrics
                  /\ printers[j] \in DOMAIN inputs
                  /\ metrics[printers[j]].printer_online =
                        {OnlineOf(inputs[printers[j]])}

-----------------------------------------------------------------------------
(* What an offline cycle leaves alone (checked under SpecFlap).            *)

\* The gauges outside the offline reset.
KeptGauges == {"wifi_signal", "chamber_light", "current_file", "nozzle_info"}

-----------------------------------------------------------------------------
(* The online gauge before the first cycle (checked under SpecRun).        *)

\* C23: between connect_printers and the end of the first cycle every
\* device of the fleet has an online gauge that reads 1 while none of its
\* other gauges has a value; an online gauge reads 0 only once a cycle has
\* been made.
C23_OnlineFromConnect ==
    /\ (phase # "STARTING" /\ cycle = 0) =>
            \A d \in Fleet :
                /\ d \in DOMAIN metrics
                /\ metrics[d].printer_online = {1}
                /\ \A g \in DOMAIN metrics[d] \ {"printer_online"} :
                      metrics[d][g] = {}
    /\ \A d \in DOMAIN metrics :
            metrics[d].printer_online = {0} => cycle >= 1

=============================================================================
